---- MODULE Spec2Model ----
(***************************************************************************)
(* udptun client forwarding engine (src/src/cli.c) over the system-call    *)
(* wrappers of src/src/sock.c.                                             *)
(*                                                                         *)
(* Packets are byte sequences.  The packet buffer is the byte array `buf`  *)
(* of tun_cli_single / tun_cli_dual; C pointers into it are 0-based        *)
(* offsets, so C byte buf[k] of a pointer at offset off is b[off + k + 1]. *)
(***************************************************************************)
EXTENDS Integers, Sequences, FiniteSets, TLC

VARIABLES
    state,      \* struct tun_state: dual_stack, ipv6, planetlab, inactivity_timeout
    cli4,       \* state->cli4: private IPv4 address -> public transport address
    cli6,       \* state->cli6: private IPv6 address -> public transport address
    buf,        \* char buf[BUFF_SIZE] of the select loop
    loop,       \* static volatile int loop
    pc,         \* position of the engine thread in the select loop
    ready,      \* input_set as left by select()
    inHandler,  \* the engine thread is inside cli_shutdown (sleeping)
    fatal,      \* argument of the die() that ended the process, "" if none
    inq,        \* per descriptor: packets/datagrams waiting to be read
    sockerr,    \* per UDP socket: a pending socket error (recv returns -1)
    errq,       \* per UDP socket: the MSG_ERRQUEUE notifications
    arrivals,   \* environment events so far
    last,       \* what the last engine step did (observation only)
    pend,       \* the handler call that has looked its record up and is
                \* about to read the record's address for sendto()
    learned,    \* per family: key -> value of the last completed upsert
    log         \* history: packets read from tun, and per UDP socket the
                \* datagrams sent, those received, and the tun writes made
                \* for it, each in order

vars == <<state, cli4, cli6, buf, loop, pc, ready, inHandler,
          fatal, inq, sockerr, errq, arrivals, last, pend, learned, log>>

-----------------------------------------------------------------------------
(* Bounds of the model *)
MaxArrivals == 2

(* Program constants of headers that are not part of src/ (scaled) *)
BUFF_SIZE == 48
MIN_PKT_SIZE == 20

-----------------------------------------------------------------------------
(* Addresses and packets the environment can produce *)
K4a == <<10, 0, 0, 5>>
K4b == <<10, 0, 0, 6>>
K6a == <<253, 0, 0, 0, 0, 0, 0, 0, 0, 0, 0, 0, 0, 0, 0, 5>>
K6b == <<253, 0, 0, 0, 0, 0, 0, 0, 0, 0, 0, 0, 0, 0, 0, 6>>
Src6 == <<253, 0, 0, 0, 0, 0, 0, 0, 0, 0, 0, 0, 0, 0, 0, 1>>

X1 == [ip |-> <<203, 0, 113, 9>>, port |-> 5000]
X2 == [ip |-> <<203, 0, 113, 10>>, port |-> 5001]
Y1 == [ip |-> <<32, 1, 13, 184>>, port |-> 5000]
NoAddr == [ip |-> <<>>, port |-> 0]

Offender == <<198, 51, 100, 7>>

\* an IPv4 packet: 20-byte header, destination at offset 16, one payload byte
V4(dst, pay) ==
    <<69, 0, 0, 21, 0, 0, 0, 0, 64, 17, 0, 0, 10, 0, 0, 1>> \o dst \o <<pay>>

\* an IPv6 packet: 40-byte header, destination at offset 24
V6(dst) == <<96, 0, 0, 0, 0, 0, 17, 64>> \o Src6 \o dst

\* neither IPv4 nor IPv6
NonIp == <<16, 1, 2>>

\* PPI framing headers a tun device prepends: flags, then the ethertype
PPI4 == <<0, 0, 8, 0>>
PPI6 == <<0, 0, 134, 221>>

RawTunPackets == {V4(K4a, 7), V4(K4b, 7), V6(K6a), V6(K6b), NonIp}

Nibble(byte) == byte \div 16

PPIOf(p) == IF Nibble(p[1]) = 6 THEN PPI6 ELSE PPI4

\* what the tun device yields in constrained (PlanetLab) mode
FramedTunPackets == {PPIOf(p) \o p : p \in RawTunPackets}

TunPackets(planetlab) == IF planetlab THEN FramedTunPackets ELSE RawTunPackets

Pad(n) == [i \in 1..n |-> 69]

\* datagrams a peer can send: empty, below / at / above MIN_PKT_SIZE
UdpDatagrams(fd) ==
    IF fd = "udp4"
    THEN {<<>>, Pad(MIN_PKT_SIZE - 1), Pad(MIN_PKT_SIZE), V4(K4a, 9)}
    ELSE {<<>>, V6(K6a)}

\* MSG_ERRQUEUE notifications (struct sock_extended_err + cmsg level)
Notifs(fd) ==
    {[level |-> IF fd = "udp4" THEN "SOL_IP" ELSE "SOL_IPV6",
      origin |-> o, type |-> 3, code |-> 1, offender |-> Offender,
      data |-> <<19, 136, 19, 137, 0, 9, 0, 0>>]
        : o \in IF fd = "udp4" THEN {"ICMP", "LOCAL"} ELSE {"ICMP"}}

Fds == {"tun", "udp4", "udp6"}
Socks == {"udp4", "udp6"}

-----------------------------------------------------------------------------
(* Buffer primitives *)

\* the kernel copies data to pointer off (at most buflen bytes)
BufWrite(b, off, data, buflen) ==
    LET n == IF Len(data) < buflen THEN Len(data) ELSE buflen IN
    [i \in 1..Len(b) |-> IF i > off /\ i <= off + n THEN data[i - off] ELSE b[i]]

\* len bytes starting at pointer off (nothing when len <= 0)
BufReadShifted(b, off, len) ==
    IF len <= 0 THEN <<>> ELSE SubSeq(b, off + 2, off + len) \o <<0>>

BufRead(b, off, len) ==
    IF len <= 0 THEN <<>> ELSE SubSeq(b, off + 1, off + len)

Min(a, b) == IF a < b THEN a ELSE b

-----------------------------------------------------------------------------
(* Effects of one handler call.  rfd/pkt/recvd describe the read or receive *)
(* it made, sends the sendto() calls it issued, writes the write() calls,   *)
(* errfd the socket whose error queue it read, errs the notifications it    *)
(* took from it, b the buffer it leaves, req the regions it asked the      *)
(* kernel to store into.                                                   *)
E0(b) ==
    [die |-> "", path |-> "none", lookups |-> <<>>, sends |-> <<>>,
     writes |-> <<>>, errfd |-> "", errs |-> <<>>, rfd |-> "", pkt |-> <<>>,
     recvd |-> 0, b |-> b, req |-> <<>>]

\* the region a read, recv or recvmsg call may store into: buflen bytes
\* from pointer off
Region(off, buflen) == [off |-> off, len |-> buflen]

NullState == [given |-> FALSE, private |-> <<>>]

-----------------------------------------------------------------------------
(* sock.c wrappers *)

\* a descriptor on which read()/recvfrom() returns without blocking
Readable(fd) == inq[fd] # <<>> \/ (fd \in Socks /\ sockerr[fd])

\* select(): blocks unless a descriptor is ready or a timeout is given;
\* intr: a signal handler ran during the call (EINTR)
xselect(nready, timeout, intr) ==
    LET sel == IF intr THEN -1 ELSE nready
    IN  [die |-> IF sel < 0 THEN "select" ELSE "", sel |-> sel]

xselect_returns(nready, timeout) == nready > 0 \/ timeout # -1

\* sendto(): fails on a descriptor that is no socket, on a length that is
\* negative as an int (huge as a size_t), or when the kernel refuses (sok)
xsendto4_dies(fd, sa, data, buflen, sok) ==
    [fd |-> fd, to |-> sa, data |-> data, len |-> buflen,
     ok |-> (fd \in Socks /\ buflen >= 0 /\ sok),
     die |-> IF fd \in Socks /\ buflen >= 0 /\ sok THEN "" ELSE "sendto"]

xsendto4(fd, sa, data, buflen, sok) ==
    [fd |-> fd, to |-> sa, data |-> data, len |-> buflen,
     ok |-> (fd \in Socks /\ buflen >= 0 /\ sok), die |-> ""]

xsendto6(fd, sa, data, buflen, sok) ==
    [fd |-> fd, to |-> sa, data |-> data, len |-> buflen,
     ok |-> (fd \in Socks /\ buflen >= 0 /\ sok), die |-> ""]

\* recvfrom(): -1 on a pending socket error, else the next datagram
xrecv(fd, b, off, buflen) ==
    IF sockerr[fd]
    THEN [recvd |-> -1, pkt |-> <<>>, b |-> b, req |-> Region(off, buflen)]
    ELSE [recvd |-> Min(Len(Head(inq[fd])), buflen), pkt |-> Head(inq[fd]),
          b |-> BufWrite(b, off, Head(inq[fd]), buflen),
          req |-> Region(off, buflen)]

\* read(): die on failure
xread(fd, b, off, buflen) ==
    IF fd \in Socks /\ sockerr[fd]
    THEN [die |-> "read", nread |-> -1, pkt |-> <<>>, b |-> b,
          req |-> Region(off, buflen)]
    ELSE [die |-> "", nread |-> Min(Len(Head(inq[fd])), buflen),
          pkt |-> Head(inq[fd]), b |-> BufWrite(b, off, Head(inq[fd]), buflen),
          req |-> Region(off, buflen)]

\* write(): die on failure (wfail: the kernel refuses the write)
xwrite(fd, data, wfail) ==
    [die |-> IF wfail THEN "write" ELSE "", w |-> [fd |-> fd, data |-> data]]

-----------------------------------------------------------------------------
(* ICMP forging (icmp.c is not part of src/) *)

RECURSIVE SumWords(_, _)
SumWords(s, i) ==
    IF i > Len(s) THEN 0 ELSE s[i] * 256 + s[i + 1] + SumWords(s, i + 2)

in_cksum(s) ==
    LET p == IF Len(s) % 2 = 1 THEN s \o <<0>> ELSE s
        sum == SumWords(p, 1)
        f1 == (sum % 65536) + (sum \div 65536)
        f2 == (f1 % 65536) + (f1 \div 65536)
    IN  65535 - f2

forge_icmp(n, private) ==
    LET icmp0 == <<n.type, n.code, 0, 0, 0, 0, 0, 0>> \o n.data
        ck == in_cksum(icmp0)
        icmp == <<n.type, n.code, ck \div 256, ck % 256, 0, 0, 0, 0>> \o n.data
        tot == 20 + Len(icmp)
        ip0 == <<69, 0, tot \div 256, tot % 256, 0, 0, 0, 0, 255, 1, 0, 0>>
                 \o n.offender \o private
        ipck == in_cksum(ip0)
        ip == <<69, 0, tot \div 256, tot % 256, 0, 0, 0, 0, 255, 1,
                ipck \div 256, ipck % 256>> \o n.offender \o private
    IN  ip \o icmp

\* the control message recvmsg() stores at msg_control (scaled)
Cmsg(n) ==
    <<(IF n.origin = "ICMP" THEN 2 ELSE 1), n.type, n.code>> \o n.offender

\* xrecverr() of a build with IP_RECVERR.  st is the state argument
\* (NullState for NULL), fd_out the descriptor of the forged packet.
xrecverr(fd, b, off, buflen, fd_out, st, wfail) ==
    IF errq[fd] = <<>>
    THEN [E0(b) EXCEPT !.errfd = fd, !.die = "recvmsg",
                       !.req = <<Region(off, buflen)>>]
    ELSE LET n == Head(errq[fd])
             b1 == BufWrite(b, off, Cmsg(n), buflen)
             e1 == [E0(b1) EXCEPT !.errfd = fd, !.errs = <<[fd |-> fd, n |-> n]>>,
                                  !.req = <<Region(off, buflen)>>]
         IN  IF n.level = "SOL_IP" /\ st.given
             THEN LET w == xwrite(fd_out, forge_icmp(n, st.private), wfail)
                  IN  [e1 EXCEPT !.writes = <<w.w>>, !.die = w.die]
             ELSE e1

-----------------------------------------------------------------------------
(* cli.c handlers.  Each takes its descriptors as the C function does and  *)
(* the buffer pointer as an offset.  k holds what the code does not        *)
(* decide: k.sok, the kernel's answer to a sendto(), and k.junk, the       *)
(* values that bytes of buf never written turn out to have when read;      *)
(* wfail is the kernel's answer to a write().                              *)

\* a byte of buf that was never written
U == -1

\* bytes read from the buffer, the unwritten ones taking the junk values
Resolve(bytes, junk) ==
    [i \in 1..Len(bytes) |-> IF bytes[i] = U THEN junk[i] ELSE bytes[i]]

\* Remove PlanetLab TUN PPI header: buf+=4; recvd-=4
StripPPI(off, recvd) ==
    IF state.planetlab THEN [off |-> off + 4, recvd |-> recvd - 4]
    ELSE [off |-> off, recvd |-> recvd]

\* Add PlanetLab TUN PPI header: buf-=4; recvd+=4
AddPPINoRewind(off, recvd) ==
    IF state.planetlab THEN [off |-> off, recvd |-> recvd + 4]
    ELSE [off |-> off, recvd |-> recvd]

AddPPI(off, recvd) ==
    IF state.planetlab THEN [off |-> off - 4, recvd |-> recvd + 4]
    ELSE [off |-> off, recvd |-> recvd]

\* no record for the private address: errno=EFAULT; die("cli lookup")
LookupMissDrops(e) == e

LookupMiss(e) == [e EXCEPT !.die = "cli lookup"]

tun_cli_in4_aux(fd_udp, b, off, recvd, k) ==
    LET o == StripPPI(off, recvd).off
        n == StripPPI(off, recvd).recvd
        priv_addr4 == Resolve(BufRead(b, o + 16, 4), k.junk)
        hit == priv_addr4 \in DOMAIN cli4
        e == [E0(b) EXCEPT
                !.path = "v4",
                !.lookups = <<[fam |-> 4, key |-> priv_addr4, hit |-> hit,
                               rec |-> IF hit THEN cli4[priv_addr4] ELSE NoAddr]>>]
    IN  IF hit
        THEN LET x == xsendto4(fd_udp, cli4[priv_addr4], BufRead(b, o, n), n, k.sok)
             IN  [e EXCEPT !.sends = <<x>>, !.die = x.die]
        ELSE LookupMiss(e)

tun_cli_in6_aux(fd_udp, b, off, recvd, k) ==
    LET o == StripPPI(off, recvd).off
        n == StripPPI(off, recvd).recvd
        priv_addr6 == Resolve(BufRead(b, o + 24, 16), k.junk)
        hit == priv_addr6 \in DOMAIN cli6
        e == [E0(b) EXCEPT
                !.path = "v6",
                !.lookups = <<[fam |-> 6, key |-> priv_addr6, hit |-> hit,
                               rec |-> IF hit THEN cli6[priv_addr6] ELSE NoAddr]>>]
    IN  IF hit
        THEN LET x == xsendto6(fd_udp, cli6[priv_addr6], BufRead(b, o, n), n, k.sok)
             IN  [e EXCEPT !.sends = <<x>>, !.die = x.die]
        ELSE LookupMiss(e)

\* the read every tunnel-side handler starts with
WithRead(r, fd, e) ==
    [e EXCEPT !.rfd = fd, !.pkt = r.pkt, !.recvd = r.nread,
              !.req = <<r.req>> \o @]

tun_cli_in(fd_tun, fd_udp4, fd_udp6, b, off, k) ==
    LET r == xread(fd_tun, b, off, BUFF_SIZE)
        hi == Nibble(r.b[off + 1])          \* buf[0] & 0xf0
    IN  IF r.die # ""
        THEN WithRead(r, fd_tun, [E0(b) EXCEPT !.die = r.die])
        ELSE WithRead(r, fd_tun,
                 IF hi = 4 THEN tun_cli_in4_aux(fd_udp4, r.b, off, r.nread, k)
                 ELSE IF hi = 6 THEN tun_cli_in6_aux(fd_udp6, r.b, off, r.nread, k)
                 ELSE E0(r.b))

tun_cli_in6(fd_tun, fd_udp, b, off, k) ==
    LET r == xread(fd_tun, b, off, BUFF_SIZE)
    IN  IF r.die # ""
        THEN WithRead(r, fd_tun, [E0(b) EXCEPT !.die = r.die])
        ELSE WithRead(r, fd_tun, tun_cli_in6_aux(fd_udp, r.b, off, r.nread, k))

tun_cli_in4(fd_tun, fd_udp, b, off, k) ==
    LET r == xread(fd_tun, b, off, BUFF_SIZE)
    IN  IF r.die # ""
        THEN WithRead(r, fd_tun, [E0(b) EXCEPT !.die = r.die])
        ELSE WithRead(r, fd_tun, tun_cli_in4_aux(fd_udp, r.b, off, r.nread, k))

\* the three branches of tun_cli_out on the result of xrecv
OutBranchErrOnEmpty(recvd) ==
    IF recvd > MIN_PKT_SIZE THEN "write"
    ELSE IF recvd <= 0 THEN "recverr"
    ELSE "empty"

OutBranch(recvd) ==
    IF recvd > MIN_PKT_SIZE THEN "write"
    ELSE IF recvd < 0 THEN "recverr"
    ELSE "empty"

tun_cli_out(fd_udp, fd_tun, b, off, wfail) ==
    LET r == xrecv(fd_udp, b, off, BUFF_SIZE)
        recvd == r.recvd
        got(e) == [e EXCEPT !.rfd = fd_udp, !.pkt = r.pkt, !.recvd = recvd,
                            !.req = <<r.req>> \o @]
    IN  IF OutBranch(recvd) = "write"
        THEN LET o == AddPPI(off, recvd).off
                 n == AddPPI(off, recvd).recvd
                 w == xwrite(fd_tun, BufRead(r.b, o, n), wfail)
             IN  got([E0(r.b) EXCEPT !.writes = <<w.w>>, !.die = w.die])
        ELSE IF OutBranch(recvd) = "recverr"
        THEN got(xrecverr(fd_udp, r.b, off, BUFF_SIZE, "fd0", NullState, wfail))
        ELSE got(E0(r.b))

-----------------------------------------------------------------------------
(* The select loops of tun_cli_single and tun_cli_dual *)

\* the UDP socket of single-stack mode
UdpFd == IF state.ipv6 THEN "udp6" ELSE "udp4"

\* descriptors in the order the loop body serves them
StagesUdpFirst ==
    IF state.dual_stack THEN <<"udp4", "tun", "udp6">> ELSE <<UdpFd, "tun">>

Stages ==
    IF state.dual_stack THEN <<"tun", "udp4", "udp6">> ELSE <<"tun", UdpFd>>

FdSet == {Stages[i] : i \in 1..Len(Stages)}

\* buffer: buf, advanced past the PPI header in PlanetLab mode
BufOff == IF state.planetlab THEN 4 ELSE 0

\* first stage at index >= i whose descriptor is set, "check" when none
RECURSIVE StageFrom(_, _)
StageFrom(i, rdy) ==
    IF i > Len(Stages) THEN "check"
    ELSE IF Stages[i] \in rdy THEN Stages[i]
    ELSE StageFrom(i + 1, rdy)

StageIndex(s) == CHOOSE i \in 1..Len(Stages) : Stages[i] = s

\* after select: break on 0, serve the ready descriptors on > 0
AfterSelectNoBreak(sel, rdy) ==
    IF sel > 0 THEN StageFrom(1, rdy) ELSE "check"

AfterSelect(sel, rdy) ==
    IF sel = 0 THEN "done"
    ELSE IF sel > 0 THEN StageFrom(1, rdy)
    ELSE "check"

\* while (loop)
LoopTest(l) == IF l # 0 THEN "select" ELSE "done"

\* tun_cli_single: tun_cli_in_func is chosen by state->ipv6
tun_cli_in_func(a1, a2, b, off, k) ==
    IF state.ipv6 THEN tun_cli_in6(a1, a2, b, off, k)
    ELSE tun_cli_in4(a1, a2, b, off, k)

\* the call made when fd_tun is set: (*tun_cli_in_func)(fd_udp, fd_tun, ...)
\* in tun_cli_single, tun_cli_in(fd_tun, fd_udp4, fd_udp6, ...) in tun_cli_dual
TunReadyCall(b, off, k) ==
    IF state.dual_stack
    THEN tun_cli_in("tun", "udp4", "udp6", b, off, k)
    ELSE tun_cli_in_func(UdpFd, "tun", b, off, k)

\* the descriptor that call reads
TunReadyFd == IF state.dual_stack THEN "tun" ELSE UdpFd

-----------------------------------------------------------------------------
(* Initial state: the loop is about to be entered (cli.c:211-223) *)

\* what 16 unwritten bytes can turn out to hold: zeros, or a stale address
Junk == {[i \in 1..16 |-> 0], K4a \o [i \in 1..12 |-> 0], K6a}

Configs ==
    {c \in [dual_stack : BOOLEAN, ipv6 : BOOLEAN, planetlab : BOOLEAN,
            inactivity_timeout : {-1, 2}] : c.dual_stack => ~c.ipv6}

\* char buf[BUFF_SIZE] is not initialised; PlanetLab mode stores 0,0,8,0
InitBuf(planetlab) ==
    [i \in 1..BUFF_SIZE |-> IF planetlab /\ i <= 4 THEN PPI4[i] ELSE U]

Idle(act) == [E0(<<>>) EXCEPT !.b = <<>>] @@ [act |-> act]

NoLog ==
    [tunRead |-> <<>>, sent |-> [s \in Socks |-> <<>>],
     received |-> [s \in Socks |-> <<>>], written |-> [s \in Socks |-> <<>>]]

\* no handler call is between its lookup and its sendto()
NoPend == E0(<<>>)

Init ==
    /\ state \in Configs
    /\ cli4 = (K4a :> X1)
    /\ cli6 = (K6a :> Y1)
    /\ buf = InitBuf(state.planetlab)
    /\ loop = 1
    /\ pc = "check"
    /\ ready = {}
    /\ inHandler = FALSE
    /\ fatal = ""
    /\ inq = [f \in Fds |-> <<>>]
    /\ sockerr = [f \in Socks |-> FALSE]
    /\ errq = [f \in Socks |-> <<>>]
    /\ arrivals = 0
    /\ last = Idle("init")
    /\ pend = NoPend
    /\ learned = [fam \in {4, 6} |-> IF fam = 4 THEN cli4 ELSE cli6]
    /\ log = NoLog

-----------------------------------------------------------------------------
(* Engine steps *)

Running == pc \notin {"done", "dead"} /\ ~inHandler

\* the loop and its handlers only ever call g_hash_table_lookup on the tables
ForwardingTablesInsert ==
    /\ cli4' = IF pc = "tun_send" THEN (K4b :> X2) @@ cli4 ELSE cli4
    /\ cli6' = cli6

ForwardingTables == UNCHANGED <<cli4, cli6>>

\* the history after a handler call with effects e: what it read
LogReads(l, e) ==
    IF e.rfd = "" \/ e.recvd < 0 THEN l
    ELSE IF e.rfd = "tun"
    THEN [l EXCEPT !.tunRead = Append(@, SubSeq(e.pkt, 1, e.recvd))]
    ELSE [l EXCEPT !.received[e.rfd] = Append(@, SubSeq(e.pkt, 1, e.recvd))]

\* ... the datagram a successful sendto() of it sent on a UDP socket
LogSends(l, e) ==
    IF e.sends # <<>> /\ e.sends[1].ok
    THEN [l EXCEPT !.sent[e.sends[1].fd] = Append(@, e.sends[1].data)]
    ELSE l

\* ... what it wrote to the tun device for the socket it received on
LogWrites(l, e) ==
    IF e.writes # <<>> /\ e.rfd \in Socks
    THEN [l EXCEPT !.written[e.rfd] = Append(@, e.writes[1].data)]
    ELSE l

\* the state change of a handler call with effects e made at stage s
Apply(e, act, s) ==
    /\ buf' = e.b
    /\ inq' = IF e.rfd # "" /\ e.recvd >= 0
              THEN [inq EXCEPT ![e.rfd] = Tail(@)] ELSE inq
    /\ sockerr' = IF e.rfd \in Socks /\ e.recvd < 0
                  THEN [sockerr EXCEPT ![e.rfd] = FALSE] ELSE sockerr
    /\ errq' = IF e.errs # <<>>
               THEN [errq EXCEPT ![e.errs[1].fd] = Tail(@)] ELSE errq
    /\ pc' = IF e.die # "" THEN "dead" ELSE StageFrom(StageIndex(s) + 1, ready)
    /\ fatal' = e.die
    /\ last' = [e EXCEPT !.b = <<>>] @@ [act |-> act]
    /\ pend' = NoPend
    /\ log' = LogWrites(LogSends(LogReads(log, e), e), e)

\* a handler call with effects e that found its record: the packet is read
\* and rec is in hand; sendto() has yet to read the address rec points to
Lookup(e) ==
    /\ buf' = e.b
    /\ inq' = [inq EXCEPT ![e.rfd] = Tail(@)]
    /\ pc' = "tun_send"
    /\ pend' = [e EXCEPT !.b = <<>>]
    /\ last' = [e EXCEPT !.b = <<>>, !.sends = <<>>, !.die = ""]
                  @@ [act |-> "tun_lookup"]
    /\ log' = LogReads(log, e)
    /\ UNCHANGED <<sockerr, errq, fatal>>

\* rec->sa4, rec->sa6 as sendto() reads it: the address the record of the
\* key holds at that moment
RecordReadTorn(fam, key) ==
    [ip |-> (IF fam = 4 THEN cli4[key] ELSE cli6[key]).ip,
     port |-> pend.lookups[1].rec.port]

RecordRead(fam, key) == IF fam = 4 THEN cli4[key] ELSE cli6[key]

LoopCheck ==
    /\ Running /\ pc = "check"
    /\ pc' = LoopTest(loop)
    /\ ready' = IF loop # 0 THEN FdSet ELSE ready    \* FD_ZERO, FD_SET
    /\ last' = Idle("check")
    /\ ForwardingTables
    /\ UNCHANGED <<state, buf, loop, inHandler, fatal, inq, sockerr, errq,
                   arrivals, pend, learned, log>>

Select ==
    /\ Running /\ pc = "select"
    /\ LET rdy == {f \in FdSet : Readable(f)}
           r == xselect(Cardinality(rdy), state.inactivity_timeout, FALSE)
       IN  /\ xselect_returns(Cardinality(rdy), state.inactivity_timeout)
           /\ ready' = rdy
           /\ pc' = AfterSelect(r.sel, rdy)
           /\ last' = Idle(IF r.sel = 0 THEN "timeout" ELSE "select")
    /\ ForwardingTables
    /\ UNCHANGED <<state, buf, loop, inHandler, fatal, inq, sockerr, errq,
                   arrivals, pend, learned, log>>

\* the handler of a ready fd_tun, up to its sendto() if it gets that far
TunIn ==
    /\ Running /\ pc = "tun"
    /\ Readable(TunReadyFd)
    /\ \E sok \in BOOLEAN, junk \in Junk :
          LET e == TunReadyCall(buf, BufOff, [sok |-> sok, junk |-> junk])
          IN  IF e.sends # <<>> THEN Lookup(e) ELSE Apply(e, "tun_in", "tun")
    /\ ForwardingTables
    /\ UNCHANGED <<state, loop, ready, inHandler, arrivals, learned>>

\* the sendto() of that handler, and its return to the loop
TunSend ==
    /\ Running /\ pc = "tun_send"
    /\ LET l == pend.lookups[1]
           x == [pend.sends[1] EXCEPT !.to = RecordRead(l.fam, l.key)]
       IN  last' = [pend EXCEPT !.sends = <<x>>] @@ [act |-> "tun_in"]
    /\ pc' = IF pend.die # "" THEN "dead"
             ELSE StageFrom(StageIndex("tun") + 1, ready)
    /\ fatal' = pend.die
    /\ pend' = NoPend
    /\ log' = LogSends(log, last')
    /\ ForwardingTables
    /\ UNCHANGED <<state, buf, loop, ready, inHandler, inq, sockerr, errq,
                   arrivals, learned>>

CliOut(s) ==
    /\ Running /\ pc = s
    /\ Readable(s)
    /\ \E wfail \in BOOLEAN :
          Apply(tun_cli_out(s, "tun", buf, BufOff, wfail), "cli_out", s)
    /\ ForwardingTables
    /\ UNCHANGED <<state, loop, ready, inHandler, arrivals, learned>>

-----------------------------------------------------------------------------
(* cli_shutdown: the handler of SIGINT and SIGTERM runs on the engine      *)
(* thread, sleeps CLOSE_TIMEOUT, then clears loop.  A select() it          *)
(* interrupted fails with EINTR when the handler returns.                  *)

SigDeliver ==
    /\ Running
    /\ inHandler' = TRUE
    /\ UNCHANGED <<state, cli4, cli6, buf, loop, pc, ready, fatal, inq, sockerr,
                   errq, arrivals, last, pend, learned, log>>

SigReturn ==
    /\ inHandler
    /\ inHandler' = FALSE
    /\ loop' = 0
    /\ \E inSyscall \in BOOLEAN :
          LET r == xselect(0, state.inactivity_timeout, TRUE)
          IN  IF pc = "select" /\ inSyscall
              THEN /\ pc' = "dead"
                   /\ fatal' = r.die
                   /\ last' = Idle("select")
              ELSE UNCHANGED <<pc, fatal, last>>
    /\ UNCHANGED <<state, cli4, cli6, buf, ready, inq, sockerr,
                   errq, arrivals, pend, learned, log>>

-----------------------------------------------------------------------------
(* Environment.  The descriptors exist while the process does. *)

Alive == pc \notin {"done", "dead"}

TunArrive ==
    /\ Alive /\ arrivals < MaxArrivals
    /\ \E p \in TunPackets(state.planetlab) :
          inq' = [inq EXCEPT !["tun"] = Append(@, p)]
    /\ arrivals' = arrivals + 1
    /\ UNCHANGED <<state, cli4, cli6, buf, loop, pc, ready, inHandler, fatal, sockerr, errq, last, pend, learned, log>>

UdpArrive ==
    /\ Alive /\ arrivals < MaxArrivals
    /\ \E s \in FdSet \cap Socks : \E d \in UdpDatagrams(s) :
          inq' = [inq EXCEPT ![s] = Append(@, d)]
    /\ arrivals' = arrivals + 1
    /\ UNCHANGED <<state, cli4, cli6, buf, loop, pc, ready, inHandler, fatal, sockerr, errq, last, pend, learned, log>>

\* an ICMP or local error for an earlier send: the socket error is set and,
\* unless the error queue is full (queued = FALSE), a notification is queued
UdpError ==
    /\ Alive /\ arrivals < MaxArrivals
    /\ \E s \in FdSet \cap Socks, queued \in BOOLEAN : \E n \in Notifs(s) :
          /\ sockerr' = [sockerr EXCEPT ![s] = TRUE]
          /\ errq' = IF queued THEN [errq EXCEPT ![s] = Append(@, n)] ELSE errq
    /\ arrivals' = arrivals + 1
    /\ UNCHANGED <<state, cli4, cli6, buf, loop, pc, ready, inHandler, fatal, inq, last, pend, learned, log>>

Next ==
    \/ LoopCheck
    \/ Select
    \/ TunIn
    \/ TunSend
    \/ \E s \in Socks : CliOut(s)
    \/ SigDeliver
    \/ SigReturn
    \/ TunArrive
    \/ UdpArrive
    \/ UdpError

Spec == Init /\ [][Next]_vars

-----------------------------------------------------------------------------
(* The background learning task.  It runs on its own thread (cli.c:199-205) *)
(* and upserts records of the tables while the loop runs: it inserts a      *)
(* record for an absent key or replaces the address of a present one, one   *)
(* key at a time and atomically.                                            *)

Y2 == [ip |-> <<32, 1, 13, 185>>, port |-> 5001]

LearnValues(fam) == IF fam = 4 THEN {X1, X2} ELSE {Y1, Y2}

Upserts ==
    {[fam |-> 4, key |-> K4a, sa |-> X1], [fam |-> 4, key |-> K4a, sa |-> X2],
     [fam |-> 4, key |-> K4b, sa |-> X2],
     [fam |-> 6, key |-> K6a, sa |-> Y1], [fam |-> 6, key |-> K6a, sa |-> Y2]}

upsert(tab, key, sa) ==
    [a \in DOMAIN tab \cup {key} |-> IF a = key THEN sa ELSE tab[a]]

Upsert ==
    /\ Alive /\ arrivals < MaxArrivals
    /\ \E u \in Upserts :
          /\ cli4' = IF u.fam = 4 THEN upsert(cli4, u.key, u.sa) ELSE cli4
          /\ cli6' = IF u.fam = 6 THEN upsert(cli6, u.key, u.sa) ELSE cli6
          /\ learned' = [learned EXCEPT ![u.fam] = upsert(@, u.key, u.sa)]
    /\ arrivals' = arrivals + 1
    /\ UNCHANGED <<state, buf, loop, pc, ready, inHandler, fatal, inq, sockerr,
                   errq, last, pend, log>>

NextLearn == Next \/ Upsert

SpecLearn == Init /\ [][NextLearn]_vars

-----------------------------------------------------------------------------
(* xrecverr() by itself: called on a socket with any state argument, a tun  *)
(* state or NULL, in every state of the socket's error queue.               *)

TunStates == {NullState, [given |-> TRUE, private |-> K4a]}

XrecverrCall ==
    /\ Alive
    /\ \E s \in FdSet \cap Socks, st \in TunStates, wfail \in BOOLEAN :
          LET e == xrecverr(s, buf, BufOff, BUFF_SIZE, "tun", st, wfail)
          IN  /\ buf' = e.b
              /\ errq' = IF e.errs # <<>> THEN [errq EXCEPT ![s] = Tail(@)] ELSE errq
              /\ pc' = IF e.die # "" THEN "dead" ELSE pc
              /\ fatal' = e.die
              /\ last' = [e EXCEPT !.b = <<>>]
                            @@ [act |-> "xrecverr", given |-> st.given]
    /\ UNCHANGED <<state, cli4, cli6, loop, ready, inHandler, inq, sockerr,
                   arrivals, pend, learned, log>>

NextRecvErr == UdpError \/ XrecverrCall

SpecRecvErr == Init /\ [][NextRecvErr]_vars

-----------------------------------------------------------------------------
(* Properties *)

\* the IP packet of what a tunnel-side handler read: in constrained mode the
\* tun device delivers it behind the 4-byte framing prefix
IpPkt(pkt) == IF state.planetlab THEN SubSeq(pkt, 5, Len(pkt)) ELSE pkt

TunInStep == last.act = "tun_in" /\ last.die # "read"
CliOutStep == last.act = "cli_out"

\* C1 -- Steady forward: when the tunnel-to-network handler handles an IPv4
\* packet of n bytes (without the framing prefix) whose destination at
\* offset 16 is a key of the IPv4 table, exactly one datagram is sent, on the
\* IPv4 UDP socket, to the address the table maps the key to, n bytes long
\* and equal to the packet, and nothing is written to the tunnel device.
C1_SteadyForward ==
    LET P == IpPkt(last.pkt) IN
    (/\ TunInStep
     /\ Len(P) >= 20
     /\ Nibble(P[1]) = 4
     /\ SubSeq(P, 17, 20) \in DOMAIN cli4)
    => /\ Len(last.sends) = 1
       /\ last.sends[1].fd = "udp4"
       /\ last.sends[1].to = cli4[SubSeq(P, 17, 20)]
       /\ last.sends[1].len = Len(P)
       /\ last.sends[1].data = P
       /\ last.writes = <<>>

\* C2 -- Unmapped peer: a lookup miss on the tunnel-to-network path (IPv4 or
\* IPv6) ends the process in die("cli lookup"): nothing is sent or written
\* for that packet, and from the dead state no step changes anything.
MissStep ==
    /\ last.act = "tun_in"
    /\ last.lookups # <<>>
    /\ ~last.lookups[1].hit

OnlyFam(fam, sock) ==
    /\ \A i \in 1..Len(last.lookups) : last.lookups[i].fam = fam
    /\ \A i \in 1..Len(last.sends) : last.sends[i].fd = sock

C3_Dispatch ==
    LET P == IpPkt(last.pkt) IN
    (TunInStep /\ Len(P) >= 1)
    => /\ Nibble(P[1]) = 4 => (last.path = "v4" /\ OnlyFam(4, "udp4"))
       /\ Nibble(P[1]) = 6 => (last.path = "v6" /\ OnlyFam(6, "udp6"))
       /\ Nibble(P[1]) \notin {4, 6} =>
             /\ last.path = "none"
             /\ last.lookups = <<>>
             /\ last.sends = <<>>
             /\ pc # "dead"

\* C4 -- ICMP relay: when the network-to-tunnel handler takes an ICMP-origin
\* notification {type, code, offender} from a socket's error queue, one
\* IPv4/ICMP packet with that source, type and code is written to the tunnel
\* device.
IsIcmpFor(data, n) ==
    /\ Len(data) >= 28
    /\ Nibble(data[1]) = 4
    /\ data[10] = 1
    /\ SubSeq(data, 13, 16) = n.offender
    /\ data[21] = n.type
    /\ data[22] = n.code

C4_IcmpRelay ==
    (/\ CliOutStep
     /\ last.errs # <<>>
     /\ last.errs[1].n.origin = "ICMP")
    => /\ Len(last.writes) = 1
       /\ last.writes[1].fd = "tun"
       /\ IsIcmpFor(last.writes[1].data, last.errs[1].n)

\* C5 -- Idle shutdown: when a timeout is configured and select returns with
\* no descriptor ready, the engine leaves the loop (Running to Stopped, not
\* from inside the signal handler), without any read, receive, send or write
\* and without an error.
SelectReturnsIdle ==
    /\ pc = "select" /\ pc' # "select"
    /\ ~inHandler
    /\ state.inactivity_timeout # -1
    /\ \A f \in FdSet : ~Readable(f)

C5_IdleShutdown ==
    [][SelectReturnsIdle =>
          /\ pc' = "done"
          /\ fatal' = ""
          /\ ~inHandler'
          /\ last'.act = "timeout"
          /\ UNCHANGED <<buf, inq, sockerr, errq, loop>>]_vars

C5_Witness ==
    /\ pc = "done"
    /\ last.act = "timeout"
    /\ loop = 1

\* C6 -- Drain-then-stop: a termination signal delivered while the engine is
\* Running, at any point of the loop, select included, is handled (drain
\* delay, stop flag set) without a fatal error exit: once the handler has
\* cleared the stop flag the process has not died in select.
C6_DrainThenStop ==
    (loop = 0 /\ ~inHandler) => fatal # "select"

\* C7 (as amended) -- a receive on a UDP socket that returns a negative length
\* is routed to the error-queue read of that socket; one that returns zero is
\* discarded without an error-queue read; in both cases nothing is written to
\* the tunnel device.
C7_NonPositiveReceive ==
    CliOutStep =>
       /\ last.recvd < 0 => (last.errfd = last.rfd /\ last.writes = <<>>)
       /\ last.recvd = 0 => (last.errfd = "" /\ last.errs = <<>>
                             /\ last.writes = <<>> /\ last.die = "")

C7_Witness ==
    /\ CliOutStep
    /\ last.recvd < 0
    /\ last.errfd = last.rfd
    /\ last.errs # <<>>
    /\ pc # "dead"

\* C7 as stated: every receive of zero or negative length is routed to the
\* error-queue read of that socket and nothing is written to the tunnel.
C7_Original ==
    (CliOutStep /\ last.recvd <= 0) =>
       (last.errfd = last.rfd /\ last.writes = <<>>)

\* C8 -- a received datagram of positive length is discarded (no write, the
\* engine keeps running) exactly when it is shorter than MIN_PKT_SIZE; one of
\* MIN_PKT_SIZE bytes or more is written to the tunnel device exactly once
\* with its payload unmodified.
C8_MinPktSize ==
    (CliOutStep /\ last.recvd > 0) =>
       /\ last.recvd < MIN_PKT_SIZE => (last.writes = <<>> /\ pc # "dead")
       /\ last.recvd >= MIN_PKT_SIZE =>
             /\ Len(last.writes) = 1
             /\ last.writes[1].fd = "tun"
             /\ IpPkt(last.writes[1].data) = last.pkt

\* what the tunnel-to-network path hands to sendto for a packet F read from
\* the tun device, and what the network-to-tunnel path hands to write for a
\* datagram D received
TunToNetPayload(b, off, F) ==
    LET b1 == BufWrite(b, off, F, BUFF_SIZE)
        s == StripPPI(off, Min(Len(F), BUFF_SIZE))
    IN  BufRead(b1, s.off, s.recvd)

NetToTunPacket(b, off, D) ==
    LET b1 == BufWrite(b, off, D, BUFF_SIZE)
        a == AddPPI(off, Min(Len(D), BUFF_SIZE))
    IN  BufRead(b1, a.off, a.recvd)

\* C9 -- Framing idempotence (constrained mode): for every framed IPv4 or
\* IPv6 packet of the tun device, stripping the prefix as the
\* tunnel-to-network path does and re-applying it as the network-to-tunnel
\* path does gives back the same bytes, prefix included.
C9_FramingIdempotence ==
    state.planetlab =>
       \A F \in FramedTunPackets :
          Nibble(F[5]) \in {4, 6} =>
             NetToTunPacket(buf, BufOff, TunToNetPayload(buf, BufOff, F)) = F

\* C10 -- in constrained mode and dual-stack mode the nibble used for
\* dispatch is the high nibble of the first byte after the 4-byte prefix: a
\* framed IPv4 packet takes the IPv4 path, a framed IPv6 packet the IPv6 path.
C10_FramedDispatch ==
    (/\ state.planetlab /\ state.dual_stack
     /\ TunInStep
     /\ Len(last.pkt) > 4)
    => /\ Nibble(last.pkt[5]) = 4 => last.path = "v4"
       /\ Nibble(last.pkt[5]) = 6 => last.path = "v6"

\* the family and key of the lookup of the last handler call
LastFam == last.lookups[1].fam
LastKey == last.lookups[1].key

C12_NonIcmpSkipped ==
    (/\ last.act = "xrecverr"
     /\ last.errs # <<>>
     /\ last.errs[1].n.origin # "ICMP")
    => last.writes = <<>>

\* position of a step of the loop body: the tunnel-side handler (its lookup
\* and its sendto), then the IPv4 socket's handler, then the IPv6 socket's
Serving == {"tun", "tun_send", "udp4", "udp6"}
Rank(p) == IF p \in {"tun", "tun_send"} THEN 1 ELSE IF p = "udp4" THEN 2 ELSE 3

RECURSIVE IsSubseq(_, _)
\* a is b with elements left out, the order kept
IsSubseq(a, b) ==
    IF a = <<>> THEN TRUE
    ELSE IF b = <<>> THEN FALSE
    ELSE IF Head(a) = Head(b) THEN IsSubseq(Tail(a), Tail(b))
    ELSE IsSubseq(a, Tail(b))

IpPkts(q) == [i \in 1..Len(q) |-> IpPkt(q[i])]

EngineStep == pc' # pc \/ last' # last \/ inHandler' # inHandler

\* C15 -- The forwarding path is read-only on the tables: every step of
\* the engine leaves cli4 and cli6 as they were; a step that changes a
\* table is an upsert of the learning task, during which the engine does
\* nothing.
C15_ForwardingReadOnly ==
    /\ [][EngineStep => (cli4' = cli4 /\ cli6' = cli6)]_vars
    /\ [][(cli4' # cli4 \/ cli6' # cli6)
          => (learned' # learned /\ UNCHANGED <<buf, inq, errq, pend, log>>)]_vars

\* the engine looked up and used a record that the learning task had replaced
C15_Witness ==
    /\ last.act = "tun_in"
    /\ last.sends # <<>>
    /\ last.lookups[1].rec = X2
    /\ cli4 = (K4a :> X2)

\* C16 -- A failed UDP receive is recoverable: when the receive of the
\* network-to-tunnel handler returns a negative length, the error queue of
\* that socket is read and the engine goes on (it has not exited), whatever
\* the error queue holds, nothing included.
C16_RecvFailureRecoverable ==
    (CliOutStep /\ last.recvd < 0)
    => /\ last.errfd = last.rfd
       /\ pc # "dead"
       /\ fatal = ""

\* C17 -- Single-stack tunnel side: in single-stack mode the handler run
\* when the tun descriptor is ready reads from the tun descriptor and sends
\* on the UDP socket.
C17_SingleStackTunSide ==
    (~state.dual_stack /\ last.act \in {"tun_lookup", "tun_in"})
    => /\ last.rfd = "tun"
       /\ \A i \in 1..Len(last.sends) : last.sends[i].fd = UdpFd

\* C18 -- The stop flag is observed only at iteration boundaries: the
\* signal handler's return leaves the engine where it was in its iteration,
\* with the same descriptors still to serve (the rest of the iteration is
\* not cancelled); with the flag set, the loop test starts no new
\* iteration, and after the loop has exited nothing is read, written or
\* sent any more.
C18_StopAtBoundary ==
    /\ [][(inHandler /\ ~inHandler')
          => (loop' = 0 /\ pc' = pc /\ ready' = ready /\ fatal' = fatal)]_vars
    /\ [][(pc = "check" /\ pc' # "check" /\ loop = 0) => pc' = "done"]_vars
    /\ [][pc = "done" => UNCHANGED <<pc, buf, inq, errq, sockerr, last, log>>]_vars

\* C19 -- Framing prefix kept: in constrained-framing mode the first four
\* bytes of the buffer hold 0,0,8,0 in every state, whatever was read,
\* received or taken from an error queue, and every packet the
\* network-to-tunnel handler writes to the tun device is that prefix
\* followed by the received payload, of length received length + 4.
C19_PrefixKept ==
    state.planetlab
    => /\ SubSeq(buf, 1, 4) = PPI4
       /\ (CliOutStep /\ last.writes # <<>>)
          => /\ Len(last.writes) = 1
             /\ last.writes[1].fd = "tun"
             /\ last.writes[1].data = PPI4 \o SubSeq(last.pkt, 1, last.recvd)
             /\ Len(last.writes[1].data) = last.recvd + 4

\* constrained mode: a tun read has used the buffer, then a datagram was
\* received into it and written to the tun device
C19_Witness ==
    /\ state.planetlab
    /\ CliOutStep /\ last.writes # <<>>
    /\ log.tunRead # <<>>

\* C20 -- A failed UDP send is dropped: when the sendto() of the tunnel
\* side handler fails on a UDP socket, the engine does not exit, that call
\* issued no second sendto(), nothing was sent on the socket for the
\* packet, and the loop goes on to the next descriptor or the next
\* iteration.
C20_FailedSendDropped ==
    (/\ last.act = "tun_in"
     /\ last.sends # <<>>
     /\ last.sends[1].fd \in Socks
     /\ ~last.sends[1].ok)
    => /\ pc \in {"udp4", "udp6", "check"}
       /\ fatal = ""
       /\ Len(last.sends) = 1
       /\ pend = NoPend
       /\ \A s \in Socks : Len(log.sent[s]) <= Len(log.tunRead) - 1

\* dual-stack mode: a tun packet was looked up and its sendto() on the IPv4
\* socket failed
C20_Witness ==
    /\ last.act = "tun_in"
    /\ last.sends # <<>>
    /\ last.sends[1].fd = "udp4"
    /\ ~last.sends[1].ok
    /\ pc = "check"

\* C21 -- Buffer bounds: in every mode, the region every read of the tun
\* side handler, every receive and every error-queue read of the network
\* side handler asks the kernel to store into lies inside the BUFF_SIZE
\* bytes of buf: it starts at an offset >= 0 and its start plus the length
\* requested is at most BUFF_SIZE.
C21_BufferBounds ==
    \A i \in 1..Len(last.req) :
        /\ last.req[i].off >= 0
        /\ last.req[i].off + last.req[i].len <= BUFF_SIZE

====
